---- MODULE Spec2Model ----
(***************************************************************************)
(* A state-machine model of the badgr-server excerpt: hierarchical staff   *)
(* permissions (apps/staff/mixins.py), the BadgeUser model with its email  *)
(* addresses, terms agreements, institution and group ranks                *)
(* (apps/badgeuser/models.py) and the SurfConext login callback            *)
(* (apps/badgrsocialauth/providers/surf_conext/views.py).                  *)
(***************************************************************************)
EXTENDS Integers, Sequences, FiniteSets, TLC

VARIABLES
    staff,          \* staff[node][user]: the membership's permissions, or None
    addresses,      \* addresses[email]: the CachedEmailAddress row of that email, or None
    variants,       \* the EmailAddressVariant rows
    groupEntities,  \* groupEntities[id]: the GroupEntity row with that pk, or None
    termsVersions,  \* termsVersions[version]: the TermsVersion row, or None
    agreements,     \* agreements[version]: the user's TermsAgreement row, or None
    agreedCache,    \* the cache entry of the user's cached_agreed_terms_version
    latestCache,    \* the cache entry badgr_server_cached_latest_version
    institution_set, \* institution_set[user]: the institutions related to the user
    callback,       \* the SurfConext callback invocation in progress
    social_accounts, \* social_accounts[user]: the providers of the user's SocialAccount rows
    enrollments,    \* the StudentsEnrolled rows, in order of creation
    call            \* the most recent operation: its name, arguments and outcome

(***************************************************************************)
(* Python's None.  Permission dictionaries are functions over Keys, so a   *)
(* record with another domain is distinct from every one of them.          *)
(***************************************************************************)
None == [isNone |-> TRUE]

Users == {"u1", "u2"}

staffVars == <<staff>>
emailVars == <<addresses, variants>>
rankVars  == <<groupEntities>>
termsVars == <<termsVersions, agreements, agreedCache, latestCache>>
institutionVars == <<institution_set>>
callbackVars == <<callback>>
enrollVars == <<social_accounts, enrollments>>

vars == <<staffVars, emailVars, rankVars, termsVars, institutionVars,
          callbackVars, enrollVars, call>>

\* What the operations on one part of the model leave alone.
exceptStaff == <<emailVars, rankVars, termsVars, institutionVars, callbackVars,
                 enrollVars>>
exceptEmail == <<staffVars, rankVars, termsVars, institutionVars, callbackVars,
                 enrollVars>>
exceptRank  == <<staffVars, emailVars, termsVars, institutionVars, callbackVars,
                 enrollVars>>
exceptTerms == <<staffVars, emailVars, rankVars, institutionVars, callbackVars,
                 enrollVars>>
exceptInstitution == <<staffVars, emailVars, rankVars, termsVars, callbackVars,
                       enrollVars>>
exceptCallback == <<staffVars, emailVars, rankVars, termsVars, institutionVars,
                    enrollVars>>
exceptEnroll == <<staffVars, emailVars, rankVars, termsVars, institutionVars,
                  callbackVars>>

(***************************************************************************)
(* STAFF PERMISSIONS                                                       *)
(***************************************************************************)

\* The organizational nodes: Institution -> Faculty -> Issuer -> BadgeClass.
Nodes == {"institution", "faculty1", "faculty2", "issuer1", "badgeclass1"}

NoParent == "no_parent"

\* node.parent; an Institution has no parent attribute (AttributeError).
parent ==
    [n \in Nodes |->
        CASE n = "institution" -> NoParent
          [] n = "faculty1"    -> "institution"
          [] n = "faculty2"    -> "institution"
          [] n = "issuer1"     -> "faculty1"
          [] n = "badgeclass1" -> "issuer1"]

\* The permission flags of a staff membership.
Keys == {"may_read", "may_update"}

\* staff.permissions: every membership carries every flag (False = 0, True = 1).
Permissions == [Keys -> {0, 1}]

\* The most staff memberships that exist at once.
MaxStaff == 3

StaffCount == Cardinality({nu \in Nodes \X Users : staff[nu[1]][nu[2]] # None})

\* get_staff_member: the membership of the user on this node, or None.
get_staff_member(self, user) == staff[self][user]

\* _get_local_permissions: the permissions of the instance only.
_get_local_permissions(self, user) ==
    LET member == get_staff_member(self, user)
    IN  IF member # None THEN member ELSE None

RECURSIVE get_permissions_min_wins(_, _)
get_permissions_min_wins(self, user) ==
    IF parent[self] = NoParent
    THEN _get_local_permissions(self, user)
    ELSE LET parent_perms == get_permissions_min_wins(parent[self], user)
             local_perms  == _get_local_permissions(self, user)
         IN  IF parent_perms = None THEN local_perms
             ELSE IF local_perms = None THEN parent_perms
             ELSE [key \in DOMAIN local_perms |->
                      IF local_perms[key] < parent_perms[key]
                      THEN local_perms[key] ELSE parent_perms[key]]

\* get_permissions: climbs the permission tree; the AttributeError raised by a
\* node without parent is the base case of the recursion.
RECURSIVE get_permissions(_, _)
get_permissions(self, user) ==
    IF parent[self] = NoParent
    THEN _get_local_permissions(self, user)
    ELSE LET parent_perms == get_permissions(parent[self], user)
             local_perms  == _get_local_permissions(self, user)
         IN  IF parent_perms = None THEN local_perms
             ELSE IF local_perms = None THEN parent_perms
             ELSE [key \in DOMAIN local_perms |->
                      IF local_perms[key] > parent_perms[key]
                      THEN local_perms[key] ELSE parent_perms[key]]

\* The model class of a node.
node_type ==
    [n \in Nodes |->
        CASE n = "institution" -> "Institution"
          [] n \in {"faculty1", "faculty2"} -> "Faculty"
          [] n = "issuer1"     -> "Issuer"
          [] n = "badgeclass1" -> "BadgeClass"]

\* The class of the staff memberships of a node, e.g. 'IssuerStaff'.
staff_class(n) ==
    CASE node_type[n] = "Institution" -> "InstitutionStaff"
      [] node_type[n] = "Faculty"     -> "FacultyStaff"
      [] node_type[n] = "Issuer"      -> "IssuerStaff"
      [] node_type[n] = "BadgeClass"  -> "BadgeClassStaff"

\* cached_institution_staff() + cached_faculty_staff() + ...: the nodes on
\* which the user has a staff membership of one of the classes.
staff_memberships(user, classes) ==
    {n \in Nodes : staff_class(n) \in classes /\ staff[n][user] # None}

\* staff_membership.has_permissions(permissions): the membership itself
\* grants every one of them.
has_permissions(n, user, permissions) ==
    \A perm \in permissions : staff[n][user][perm] = 1

RECURSIVE is_below(_, _)
\* The node m is below the node n in the tree.
is_below(m, n) ==
    /\ parent[m] # NoParent
    /\ (parent[m] = n \/ is_below(parent[m], n))

\* object.cached_faculties(), cached_issuers(), cached_badgeclasses(): the
\* nodes of that class below the object.
cached_nodes(n, type) == {m \in Nodes : node_type[m] = type /\ is_below(m, n)}

\* The loop shared by get_faculties, get_issuers and get_badgeclasses: a
\* membership with all the permissions contributes its own object when it is
\* of the wanted class, and else the objects of that class below its object;
\* list(set(...)) keeps each once.
get_nodes(user, permissions, classes, own_class, type) ==
    UNION {IF staff_class(n) # own_class THEN cached_nodes(n, type) ELSE {n} :
              n \in {m \in staff_memberships(user, classes) :
                        has_permissions(m, user, permissions)}}

get_faculties(user, permissions) ==
    get_nodes(user, permissions, {"InstitutionStaff", "FacultyStaff"},
              "FacultyStaff", "Faculty")

get_issuers(user, permissions) ==
    get_nodes(user, permissions,
              {"InstitutionStaff", "FacultyStaff", "IssuerStaff"},
              "IssuerStaff", "Issuer")

get_badgeclasses(user, permissions) ==
    get_nodes(user, permissions,
              {"InstitutionStaff", "FacultyStaff", "IssuerStaff", "BadgeClassStaff"},
              "BadgeClassStaff", "BadgeClass")

InitStaff == staff = [n \in Nodes |-> [u \in Users |-> None]]

\* A staff membership is created for a user on a node.
AddStaff(n, u, p) ==
    /\ staff[n][u] = None
    /\ StaffCount < MaxStaff
    /\ staff' = [staff EXCEPT ![n][u] = p]
    /\ UNCHANGED <<exceptStaff, call>>

\* The permissions of a staff membership are changed.
UpdateStaff(n, u, p) ==
    /\ staff[n][u] # None
    /\ staff[n][u] # p
    /\ staff' = [staff EXCEPT ![n][u] = p]
    /\ UNCHANGED <<exceptStaff, call>>

\* A staff membership is removed.
RemoveStaff(n, u) ==
    /\ staff[n][u] # None
    /\ staff' = [staff EXCEPT ![n][u] = None]
    /\ UNCHANGED <<exceptStaff, call>>

NextStaff ==
    \E n \in Nodes, u \in Users :
        \/ \E p \in Permissions : AddStaff(n, u, p)
        \/ \E p \in Permissions : UpdateStaff(n, u, p)
        \/ RemoveStaff(n, u)

(***************************************************************************)
(* EMAIL ADDRESSES                                                         *)
(***************************************************************************)

\* The addresses users register; EmailAddress.email is unique.
Emails == {"A@x.nl", "b@x.nl"}

\* The addresses a case variant may carry.
VariantEmails == {"A@x.nl", "a@x.nl", "b@x.nl", "B@x.nl"}

\* str.lower()
lower(email) ==
    CASE email = "A@x.nl" -> "a@x.nl"
      [] email = "B@x.nl" -> "b@x.nl"
      [] OTHER -> email

\* The longest list assigned to email_items.
MaxItems == 2

\* One entry of the assigned list; a missing 'primary' reads as False.
EmailData == [email : Emails, primary : BOOLEAN]

EmailLists == UNION {[1..n -> EmailData] : n \in 0..MaxItems}

\* The database rows the email operations read and write.
Db == [addresses |-> addresses, variants |-> variants]

\* cached_emails: the addresses of a user.
cached_emails(db, user) ==
    {e \in Emails : db.addresses[e] # None /\ db.addresses[e].user = user}

\* EmailAddressVariant.is_valid(raise_exception=True): TRUE when it returns,
\* FALSE when it raises ValidationError.  NoCanonical is an unset
\* canonical_email_id, looked up by the variant's own email.
NoCanonical == "no_canonical"

variant_canonical(db, email, canonical) ==
    IF canonical # NoCanonical THEN canonical
    ELSE IF email \in Emails /\ db.addresses[email] # None THEN email
    ELSE NoCanonical

is_valid_lenient(db, email, canonical) ==
    variant_canonical(db, email, canonical) # NoCanonical

is_valid(db, email, canonical) ==
    LET found == variant_canonical(db, email, canonical)
    IN  /\ found # NoCanonical
        /\ lower(found) = lower(email)

\* EmailAddressVariant.verified: the canonical address's flag.
variant_verified(db, variant) == db.addresses[variant.canonical_email].verified

\* EmailAddressVariant.save: validates, stores the row, then saves the
\* canonical address, whose save finds this variant and adds no other.
variant_save(db, email, canonical) ==
    IF ~is_valid(db, email, canonical)
    THEN [raised |-> TRUE, db |-> db]
    ELSE [raised |-> FALSE,
          db |-> [db EXCEPT !.variants = @ \cup
                    {[email |-> email,
                      canonical_email |-> variant_canonical(db, email, canonical)]}]]

\* CachedEmailAddress.add_variant
add_variant(db, self, email_variation) ==
    IF [email |-> email_variation, canonical_email |-> self] \notin db.variants
    THEN variant_save(db, email_variation, self)
    ELSE [raised |-> TRUE, db |-> db]

\* CachedEmailAddress.save: stores the row and gives a mixed-case address
\* without variants its lower-case variant.
address_save(db, email, row) ==
    LET stored == [db EXCEPT !.addresses[email] = row]
    IN  IF /\ ~ \E v \in stored.variants : v.canonical_email = email
           /\ email # lower(email)
        THEN add_variant(stored, email, lower(email)).db
        ELSE stored

\* CachedEmailAddress.delete: the variants go with it (on_delete=CASCADE).
address_delete(db, email) ==
    [addresses |-> [db.addresses EXCEPT ![email] = None],
     variants  |-> {v \in db.variants : v.canonical_email # email}]

\* CachedEmailAddress.objects.get_primary(user): the user's primary
\* addresses; get() returns the only one, None when there is none, and
\* raises MultipleObjectsReturned when there are several.
get_primary(db, user) ==
    {e \in Emails : /\ db.addresses[e] # None
                    /\ db.addresses[e].user = user
                    /\ db.addresses[e].primary}

\* set_as_primary that leaves the old primary as it is.
set_as_primary_keeps_old(self, conditional, db) ==
    LET old_primary == get_primary(db, db.addresses[self].user)
    IN  IF Cardinality(old_primary) > 1
        THEN [result |-> "MultipleObjectsReturned", db |-> db]
        ELSE IF old_primary # {} /\ conditional
        THEN [result |-> "False", db |-> db]
        ELSE [result |-> "True",
              db |-> address_save(db, self,
                         [db.addresses[self] EXCEPT !.primary = TRUE])]

\* emailaddress.set_as_primary(conditional): the old primary, found through
\* the CachedEmailAddress manager, is cleared and saved; the parent's
\* set_as_primary then finds no primary left, sets the flag on self and
\* saves it.  self is the address as loaded before the call.
set_as_primary(self, conditional, db) ==
    LET old_primary == get_primary(db, db.addresses[self].user)
    IN  IF Cardinality(old_primary) > 1
        THEN [result |-> "MultipleObjectsReturned", db |-> db]
        ELSE IF old_primary # {} /\ conditional
        THEN [result |-> "False", db |-> db]
        ELSE LET old == CHOOSE e \in old_primary : TRUE
                 cleared == IF old_primary = {} THEN db
                            ELSE address_save(db, old,
                                     [db.addresses[old] EXCEPT !.primary = FALSE])
             IN  [result |-> "True",
                  db |-> address_save(cleared, self,
                             [db.addresses[self] EXCEPT !.primary = TRUE])]

\* The body of the setter's first loop for one entry: get_or_create, then
\* update, hand over or refuse.
add_or_update_takes_verified(self, email_data, db) ==
    LET emailaddress == db.addresses[email_data.email]
    IN  IF emailaddress = None
        THEN [raised |-> FALSE,
              db |-> address_save(db, email_data.email,
                        [user |-> self, primary |-> email_data.primary,
                         verified |-> FALSE])]
        ELSE [raised |-> FALSE,
              db |-> address_save(db, email_data.email,
                        [emailaddress EXCEPT !.user = self,
                                             !.primary = email_data.primary])]

add_or_update(self, email_data, db) ==
    LET emailaddress == db.addresses[email_data.email]
    IN  IF emailaddress = None
        THEN \* created, with the defaults; a confirmation is sent
             [raised |-> FALSE,
              db |-> address_save(db, email_data.email,
                        [user |-> self, primary |-> email_data.primary,
                         verified |-> FALSE])]
        ELSE IF emailaddress.user = self
        THEN \* existing email address owned by user
             [raised |-> FALSE,
              db |-> address_save(db, email_data.email,
                        [emailaddress EXCEPT !.primary = email_data.primary])]
        ELSE IF ~emailaddress.verified
        THEN \* existing unverified email address, handover to this user
             [raised |-> FALSE,
              db |-> address_save(db, email_data.email,
                        [emailaddress EXCEPT !.user = self,
                                             !.primary = email_data.primary])]
        ELSE \* existing email address used by someone else
             [raised |-> TRUE, db |-> db]

\* The first loop: the entries in list order, stopping at the first that raises.
RECURSIVE add_or_update_all(_, _, _)
add_or_update_all(self, value, db) ==
    IF value = <<>>
    THEN [raised |-> FALSE, db |-> db]
    ELSE LET r == add_or_update(self, Head(value), db)
         IN  IF r.raised THEN r ELSE add_or_update_all(self, Tail(value), r.db)

\* The second loop: the user's addresses that the list does not name are deleted.
RECURSIVE remove_old_items(_, _)
remove_old_items(old, db) ==
    IF old = {}
    THEN db
    ELSE LET e == CHOOSE x \in old : TRUE
         IN  remove_old_items(old \ {e}, address_delete(db, e))

primary_count(value) ==
    Cardinality({i \in DOMAIN value : value[i].primary})

\* The setter without transaction.atomic(): what the entries before the
\* failing one have written stays.
email_items_setter_no_atomic(self, value, db) ==
    IF Len(value) < 1 \/ primary_count(value) # 1
    THEN [raised |-> TRUE, db |-> db]
    ELSE LET r == add_or_update_all(self, value, db)
         IN  IF r.raised
             THEN r
             ELSE [raised |-> FALSE,
                   db |-> remove_old_items(
                            cached_emails(r.db, self) \
                                {value[i].email : i \in DOMAIN value}, r.db)]

\* The setter of BadgeUser.email_items.  A ValidationError inside
\* transaction.atomic() rolls the database back to db.
email_items_setter(self, value, db) ==
    IF Len(value) < 1
    THEN [raised |-> TRUE, db |-> db]
    ELSE IF primary_count(value) # 1
    THEN [raised |-> TRUE, db |-> db]
    ELSE LET new_email_idx == {value[i].email : i \in DOMAIN value}
             r == add_or_update_all(self, value, db)
         IN  IF r.raised
             THEN [raised |-> TRUE, db |-> db]
             ELSE [raised |-> FALSE,
                   db |-> remove_old_items(
                            cached_emails(r.db, self) \ new_email_idx, r.db)]

InitEmail ==
    /\ addresses = [e \in Emails |-> None]
    /\ variants = {}

\* user.email_items = value
SetEmailItems(self, value) ==
    LET r == email_items_setter(self, value, Db)
    IN  /\ addresses' = r.db.addresses
        /\ variants' = r.db.variants
        /\ call' = [op |-> "email_items", user |-> self, value |-> value,
                    raised |-> r.raised]
        /\ UNCHANGED exceptEmail

\* The owner confirms an address: its verified flag is set.
ConfirmEmail(email) ==
    /\ addresses[email] # None
    /\ ~addresses[email].verified
    /\ addresses' = [addresses EXCEPT ![email].verified = TRUE]
    /\ call' = [op |-> "confirm", email |-> email]
    /\ UNCHANGED <<variants, exceptEmail>>

\* EmailAddressVariant(email=email, canonical_email=canonical).save()
SaveVariant(email, canonical) ==
    /\ canonical \in Emails => addresses[canonical] # None
    /\ LET r == variant_save(Db, email, canonical)
       IN  /\ variants' = r.db.variants
           /\ call' = [op |-> "variant_save", email |-> email,
                       canonical |-> canonical, raised |-> r.raised]
    /\ UNCHANGED <<addresses, exceptEmail>>

\* CachedEmailAddress(email=email, user=user).save() for an address not yet stored.
CreateAddress(email, user, primary) ==
    /\ addresses[email] = None
    /\ LET db == address_save(Db, email,
                    [user |-> user, primary |-> primary, verified |-> FALSE])
       IN  /\ addresses' = db.addresses
           /\ variants' = db.variants
    /\ call' = [op |-> "address_create", email |-> email]
    /\ UNCHANGED exceptEmail

\* emailaddress.delete()
DeleteAddress(email) ==
    /\ addresses[email] # None
    /\ LET db == address_delete(Db, email)
       IN  /\ addresses' = db.addresses
           /\ variants' = db.variants
    /\ call' = [op |-> "address_delete", email |-> email]
    /\ UNCHANGED exceptEmail

\* emailaddress.set_as_primary(conditional=conditional)
SetAsPrimary(email, conditional) ==
    /\ addresses[email] # None
    /\ LET r == set_as_primary(email, conditional, Db)
       IN  /\ addresses' = r.db.addresses
           /\ variants' = r.db.variants
           /\ call' = [op |-> "set_as_primary", email |-> email,
                       conditional |-> conditional, result |-> r.result,
                       old_primary |-> get_primary(Db, addresses[email].user)]
    /\ UNCHANGED exceptEmail

NextEmail ==
    \/ \E self \in Users, value \in EmailLists : SetEmailItems(self, value)
    \/ \E email \in Emails : ConfirmEmail(email)
    \/ \E email \in Emails, conditional \in BOOLEAN : SetAsPrimary(email, conditional)

NextVariant ==
    \/ \E email \in VariantEmails, canonical \in Emails \cup {NoCanonical} :
           SaveVariant(email, canonical)
    \/ \E email \in Emails, user \in Users, primary \in BOOLEAN :
           CreateAddress(email, user, primary)
    \/ \E email \in Emails : ConfirmEmail(email)
    \/ \E email \in Emails : DeleteAddress(email)

(***************************************************************************)
(* GROUP RANKS                                                             *)
(***************************************************************************)

\* The auth groups; a GroupEntity has the pk of its group (OneToOneField).
NumGroups == 3

Groups == 1..NumGroups

\* The ranks in use.
MaxRank == 1

\* GroupEntity.rank: null ({}) or a non-negative number ({r}).
Ranks == {{}} \cup {{r} : r \in 0..MaxRank}

\* sender.objects.filter(rank=rank).first(): the row with the lowest pk, 0 for None.
first_with_rank(entities, rank) ==
    LET same == {g \in Groups : entities[g] # None /\ entities[g].rank = rank}
    IN  IF same = {} THEN 0 ELSE CHOOSE g \in same : \A h \in same : g <= h

check_rank_uniqueness_skipped(entities, instance, rank) == FALSE

\* check_rank_uniqueness (pre_save): TRUE when it raises ValidationError.
\* instance is the pk of the saved row, 0 for a row not yet stored.
check_rank_uniqueness(entities, instance, rank) ==
    /\ rank # {}
    /\ LET instance_with_same_rank == first_with_rank(entities, rank)
       IN  /\ instance_with_same_rank # 0
           /\ instance_with_same_rank # instance

InitRank == groupEntities = [g \in Groups |-> None]

\* group.save(): generate_entity_id (post_save) gives a group without
\* GroupEntity one, with the default rank.
SaveGroup(g) ==
    /\ IF groupEntities[g] = None
       THEN /\ groupEntities' =
                  IF check_rank_uniqueness(groupEntities, 0, {})
                  THEN groupEntities
                  ELSE [groupEntities EXCEPT ![g] = [rank |-> {}]]
       ELSE UNCHANGED groupEntities
    /\ call' = [op |-> "group_save", group |-> g]
    /\ UNCHANGED exceptRank

\* GroupEntity(group=g, rank=rank).save() for a group without GroupEntity.
CreateGroupEntity(g, rank) ==
    /\ groupEntities[g] = None
    /\ LET raised == check_rank_uniqueness(groupEntities, 0, rank)
       IN  /\ groupEntities' =
                 IF raised THEN groupEntities
                 ELSE [groupEntities EXCEPT ![g] = [rank |-> rank]]
           /\ call' = [op |-> "entity_save", group |-> g, rank |-> rank,
                       raised |-> raised]
    /\ UNCHANGED exceptRank

\* group.entity_rank.rank = rank; group.entity_rank.save()
SaveGroupEntity(g, rank) ==
    /\ groupEntities[g] # None
    /\ LET raised == check_rank_uniqueness(groupEntities, g, rank)
       IN  /\ groupEntities' =
                 IF raised THEN groupEntities
                 ELSE [groupEntities EXCEPT ![g].rank = rank]
           /\ call' = [op |-> "entity_save", group |-> g, rank |-> rank,
                       raised |-> raised]
    /\ UNCHANGED exceptRank

NextRank ==
    \E g \in Groups :
        \/ SaveGroup(g)
        \/ \E rank \in Ranks : CreateGroupEntity(g, rank)
        \/ \E rank \in Ranks : SaveGroupEntity(g, rank)

(***************************************************************************)
(* TERMS VERSIONS AND AGREEMENTS (of one user)                             *)
(***************************************************************************)

\* The highest terms version in use.
MaxVersion == 3

Versions == 1..MaxVersion

\* What is assigned to agreed_terms_version: numbers as text, and other text.
TermsInputs == {"abc"} \cup {ToString(i) : i \in 0..MaxVersion}

\* int(value): {the number}, or {} when int raises ValueError.
int(value) == {i \in 0..MaxVersion : ToString(i) = value}

\* The greatest element of a non-empty set of numbers.
Greatest(S) == CHOOSE x \in S : \A y \in S : y <= x

\* TermsVersionManager.latest: the highest active version as {version}, {} for None.
latest(versions) ==
    LET active == {v \in Versions : versions[v] # None /\ versions[v].is_active}
    IN  IF active = {} THEN {} ELSE {Greatest(active)}

\* TermsVersionManager.publish_latest: the cache entry afterwards; None is
\* not written to the cache.
publish_latest(versions, cache) ==
    IF latest(versions) # {} THEN latest(versions) ELSE cache

\* TermsVersionManager.cached_latest: the cache entry when there is one,
\* else what publish_latest returns.
cached_latest(versions, cache) ==
    IF cache = {} THEN latest(versions) ELSE cache

\* TermsVersionManager.latest_version: the version of cached_latest, 0 for None.
latest_version(versions, cache) ==
    LET found == cached_latest(versions, cache)
    IN  IF found # {} THEN CHOOSE v \in found : TRUE ELSE 0

\* TermsVersion.active_objects.filter(version=value).exists()
active_version_exists(versions, value) ==
    value \in Versions /\ versions[value] # None /\ versions[value].is_active

\* The query of cached_agreed_terms_version: the valid agreement with the
\* highest terms_version as {terms_version}, {} for None.
query_agreed_terms_version(agr) ==
    LET valid == {v \in Versions : agr[v] # None /\ agr[v].valid}
    IN  IF valid = {} THEN {} ELSE {Greatest(valid)}

\* cachemodel.cached_method: the cache entry when there is one, else the
\* query's result, which becomes the entry.
cached_agreed_terms_version(cache, agr) ==
    IF cache # {}
    THEN [data |-> cache, cache |-> cache]
    ELSE [data |-> query_agreed_terms_version(agr),
          cache |-> query_agreed_terms_version(agr)]

\* BadgeUser.agreed_terms_version (getter): the value returned.
agreed_terms_version(cache, agr) ==
    LET v == cached_agreed_terms_version(cache, agr).data
    IN  IF v = {} THEN 0 ELSE CHOOSE x \in v : TRUE

\* BadgeUser.agreed_terms_version (setter): the agreements and the cache
\* entry afterwards.  get_or_create stores a row only when the user has none
\* for the version.
agreed_terms_version_setter(value, versions, agr, cache) ==
    IF int(value) = {}
    THEN [agreements |-> agr, cache |-> cache]
    ELSE LET n == CHOOSE x \in int(value) : TRUE
             read == cached_agreed_terms_version(cache, agr)
         IN  [agreements |->
                 IF /\ n > agreed_terms_version(cache, agr)
                    /\ active_version_exists(versions, n)
                    /\ agr[n] = None
                 THEN [agr EXCEPT ![n] = [agreed |-> TRUE, valid |-> TRUE]]
                 ELSE agr,
              cache |-> read.cache]

InitTerms ==
    /\ termsVersions = [v \in Versions |-> None]
    /\ agreements = [v \in Versions |-> None]
    /\ agreedCache = {}
    /\ latestCache = {}

\* A TermsVersion is created, activated or deactivated; save() publishes it.
SaveTermsVersion(version, is_active) ==
    /\ termsVersions' = [termsVersions EXCEPT ![version] = [is_active |-> is_active]]
    /\ latestCache' = publish_latest(termsVersions', latestCache)
    /\ call' = [op |-> "terms_version_save", version |-> version,
                is_active |-> is_active]
    /\ UNCHANGED <<agreements, agreedCache, exceptTerms>>

\* user.agreed_terms_version = value
SetAgreedTermsVersion(value) ==
    /\ LET r == agreed_terms_version_setter(value, termsVersions, agreements,
                                            agreedCache)
       IN  /\ agreements' = r.agreements
           /\ agreedCache' = r.cache
    /\ call' = [op |-> "agreed_terms_version_set", value |-> value]
    /\ UNCHANGED <<termsVersions, latestCache, exceptTerms>>

\* user.agreed_terms_version is read
GetAgreedTermsVersion ==
    /\ agreedCache' = cached_agreed_terms_version(agreedCache, agreements).cache
    /\ call' = [op |-> "agreed_terms_version_get",
                result |-> agreed_terms_version(agreedCache, agreements)]
    /\ UNCHANGED <<termsVersions, agreements, latestCache, exceptTerms>>

\* A TermsAgreement of the user is invalidated: valid = False, then save().
InvalidateAgreement(version) ==
    /\ agreements[version] # None
    /\ agreements[version].valid
    /\ agreements' = [agreements EXCEPT ![version].valid = FALSE]
    /\ call' = [op |-> "agreement_invalidate", version |-> version]
    /\ UNCHANGED <<termsVersions, agreedCache, latestCache, exceptTerms>>

\* user.publish(): the auto_publish cached methods are computed anew.
PublishUser ==
    /\ agreedCache' = query_agreed_terms_version(agreements)
    /\ call' = [op |-> "user_publish"]
    /\ UNCHANGED <<termsVersions, agreements, latestCache, exceptTerms>>

NextAgreement ==
    \/ \E version \in Versions, is_active \in BOOLEAN :
           SaveTermsVersion(version, is_active)
    \/ \E value \in TermsInputs : SetAgreedTermsVersion(value)
    \/ GetAgreedTermsVersion
    \/ \E version \in Versions : InvalidateAgreement(version)
    \/ PublishUser

(***************************************************************************)
(* INSTITUTION                                                             *)
(***************************************************************************)

\* The institutions that exist.
NumInstitutions == 3

Institutions == 1..NumInstitutions

\* institution_set.get(): the one related institution, or the exception raised.
institution_get(related) ==
    IF related = {} THEN [raised |-> "DoesNotExist"]
    ELSE IF Cardinality(related) > 1 THEN [raised |-> "MultipleObjectsReturned"]
    ELSE [raised |-> "", value |-> CHOOSE i \in related : TRUE]

\* institution_set.add(value): the related institutions afterwards.
institution_add(related, value) == related \cup {value}

InitInstitution == institution_set = [u \in Users |-> {}]

\* user.institution = value
SetInstitution(user, value) ==
    /\ institution_set' =
           [institution_set EXCEPT ![user] = institution_add(@, value)]
    /\ call' = [op |-> "institution_set", user |-> user, value |-> value]
    /\ UNCHANGED exceptInstitution

\* user.institution is read
GetInstitution(user) ==
    /\ call' = [op |-> "institution_get", user |-> user,
                result |-> institution_get(institution_set[user])]
    /\ UNCHANGED <<institution_set, exceptInstitution>>

NextInstitution ==
    \E user \in Users :
        \/ \E value \in Institutions : SetInstitution(user, value)
        \/ GetInstitution(user)

(***************************************************************************)
(* SURFCONEXT CALLBACK                                                     *)
(***************************************************************************)

\* The 'state' query parameter as its fields between the '-' separators:
\* what state.split('-') returns.
StateParams ==
    {<<"login", "token", "1">>, <<"connect", "token", "1">>,
     <<"connect", "", "1">>, <<"login", "token", "None">>, <<"login">>,
     <<"login", "to", "ken", "1">>}

\* The pk of the BadgrApp rows.
BadgrApps == {"1"}

\* A callback request: request.GET, and whether request.user is anonymous.
\* A request without 'state' has state <<>>.
Requests ==
    [has_state : {TRUE}, state : StateParams, has_code : BOOLEAN,
     is_anonymous : BOOLEAN]
    \cup [has_state : {FALSE}, state : {<<>>}, has_code : BOOLEAN,
          is_anonymous : BOOLEAN]

\* What the token endpoint answers: the status, whether the body is a JSON
\* object, and whether that holds 'access_token'.
TokenResponses ==
    [received : {TRUE}, status_code : {200, 400}, json : BOOLEAN,
     access_token : BOOLEAN]

\* What the user-info endpoint answers.
UserinfoResponses ==
    [received : {TRUE}, status_code : {200, 401}, json : BOOLEAN,
     email : BOOLEAN, sub : BOOLEAN]

NoResponse == [received |-> FALSE]

\* The ways a callback ends.
AuthenticationError == "render_authentication_error"
Completed == "complete_social_login"
Exception == "exception"

Idle == [pc |-> "idle", steps |-> <<>>, outcome |-> "", user |-> "",
         token |-> NoResponse, userinfo |-> NoResponse]

\* The callback ends: nothing more is done for the request.
Ended(cb, outcome) == [cb EXCEPT !.pc = "done", !.outcome = outcome]

\* callback, from the request to requests.post on the token endpoint.
callback_begin(request) ==
    LET cb == [Idle EXCEPT !.pc = "begin"] @@ [request |-> request]
    IN  IF ~request.has_state
        THEN Ended(cb, Exception)         \* None.split: AttributeError
        ELSE IF Len(request.state) # 3
        THEN Ended(cb, Exception)         \* unpacking: ValueError
        ELSE IF ~request.has_code
        THEN Ended(cb, AuthenticationError)
        ELSE [cb EXCEPT !.pc = "token", !.steps = Append(@, "token_request")]

\* callback, from the token endpoint's answer to requests.get on the
\* user-info endpoint.
callback_token(cb, response) ==
    LET got == [cb EXCEPT !.token = response]
    IN  IF response.status_code # 200
        THEN Ended(got, AuthenticationError)
        ELSE IF ~response.json
        THEN Ended(got, Exception)        \* response.json(): ValueError
        ELSE IF ~response.access_token
        THEN Ended(got, AuthenticationError)
        ELSE [got EXCEPT !.pc = "userinfo",
                         !.steps = Append(@, "userinfo_request")]

\* The user the social login is completed for: a connect by an anonymous
\* request with an auth token logs in the token's user.
login_user(request) ==
    IF request.state[1] = "connect" /\ request.is_anonymous /\ request.state[2] # ""
    THEN "get_verified_user"
    ELSE "request.user"

\* callback, from the user-info endpoint's answer to its return.
callback_userinfo(cb, response) ==
    LET got == [cb EXCEPT !.userinfo = response]
    IN  IF response.status_code # 200
        THEN Ended(got, AuthenticationError)
        ELSE IF ~response.json
        THEN Ended(got, Exception)        \* response.json(): ValueError
        ELSE IF ~response.email \/ ~response.sub
        THEN Ended(got, AuthenticationError)
        ELSE IF cb.request.state[3] \notin BadgrApps
        THEN Ended(got, Exception)        \* BadgrApp.objects.get(pk=...)
        ELSE Ended([got EXCEPT
                      !.steps = Append(@, "complete_social_login"),
                      !.user = login_user(cb.request)],
                   Completed)

InitCallback == callback = Idle

\* A request reaches the callback view.
CallbackRequest(request) ==
    /\ callback.pc = "idle"
    /\ callback' = callback_begin(request)
    /\ UNCHANGED <<exceptCallback, call>>

\* The token endpoint answers.
CallbackToken(response) ==
    /\ callback.pc = "token"
    /\ callback' = callback_token(callback, response)
    /\ UNCHANGED <<exceptCallback, call>>

\* The user-info endpoint answers.
CallbackUserinfo(response) ==
    /\ callback.pc = "userinfo"
    /\ callback' = callback_userinfo(callback, response)
    /\ UNCHANGED <<exceptCallback, call>>

\* The response has been sent; the view serves the next request.
CallbackReturn ==
    /\ callback.pc = "done"
    /\ callback' = Idle
    /\ UNCHANGED <<exceptCallback, call>>

NextCallback ==
    \/ \E request \in Requests : CallbackRequest(request)
    \/ \E response \in TokenResponses : CallbackToken(response)
    \/ \E response \in UserinfoResponses : CallbackUserinfo(response)
    \/ CallbackReturn

(***************************************************************************)
(* ENROLLMENT                                                              *)
(***************************************************************************)

\* The badge classes a student can enroll for.
BadgeClasses == {"bc1", "bc2"}

\* SocialAccount.provider.
Providers == {"edu_id", "surfconext_ala", "surf_conext"}

\* The most StudentsEnrolled rows that exist at once.
MaxEnrollments == 2

\* get_social_account(): the user's SocialAccount, None when there is none.
get_social_account(self) ==
    IF social_accounts[self] = {}
    THEN None
    ELSE [user |-> self, provider |-> CHOOSE p \in social_accounts[self] : TRUE]

\* StudentsEnrolled.objects.filter(user=..., badge_class_id=...).
enrollments_filter(user, badge_class) ==
    SelectSeq(enrollments,
              LAMBDA e : e.user = user /\ e.badge_class = badge_class)

\* enrollment.assertion_is_revoked(): the awarded assertion is revoked.
assertion_is_revoked(enrollment) == enrollment.badge_instance.revoked

\* may_enroll with a loop that looks at the first enrollment only.
may_enroll_first_only(self, badge_class) ==
    LET social_account == get_social_account(self)
        found == enrollments_filter(self, badge_class)
    IN  IF social_account = None THEN "AttributeError"
        ELSE IF social_account.provider \in {"edu_id", "surfconext_ala"}
        THEN IF found = <<>> THEN "True"
             ELSE IF Head(found).badge_instance = None THEN "False"
             ELSE IF ~assertion_is_revoked(Head(found)) THEN "False"
             ELSE "True"
        ELSE "False"

RECURSIVE all_awarded_and_revoked(_)
\* The for loop of may_enroll: False at the first enrollment that has never
\* been awarded or whose assertion is not revoked, True after the last.
all_awarded_and_revoked(found) ==
    IF found = <<>> THEN "True"
    ELSE IF Head(found).badge_instance = None THEN "False"
    ELSE IF ~assertion_is_revoked(Head(found)) THEN "False"
    ELSE all_awarded_and_revoked(Tail(found))

\* user.may_enroll(badge_class): "True", "False", or the AttributeError of
\* reading .provider of None.
may_enroll(self, badge_class) ==
    LET social_account == get_social_account(self)
    IN  IF social_account = None THEN "AttributeError"
        ELSE IF \/ social_account.provider = "edu_id"
                \/ social_account.provider = "surfconext_ala"
        THEN LET found == enrollments_filter(social_account.user, badge_class)
             IN  IF found = <<>> THEN "True"
                 ELSE all_awarded_and_revoked(found)
        ELSE "False"

InitEnroll ==
    /\ social_accounts = [u \in Users |-> {}]
    /\ enrollments = <<>>

\* A user logs in through a provider for the first time.
ConnectSocialAccount(user, provider) ==
    /\ social_accounts[user] = {}
    /\ social_accounts' = [social_accounts EXCEPT ![user] = {provider}]
    /\ call' = [op |-> "connect"]
    /\ UNCHANGED <<enrollments, exceptEnroll>>

\* A StudentsEnrolled row is created, not yet awarded.
Enroll(user, badge_class) ==
    /\ Len(enrollments) < MaxEnrollments
    /\ enrollments' = Append(enrollments,
           [user |-> user, badge_class |-> badge_class, badge_instance |-> None])
    /\ call' = [op |-> "enroll"]
    /\ UNCHANGED <<social_accounts, exceptEnroll>>

\* The enrollment is awarded: it gets its assertion.
AwardEnrollment(i) ==
    /\ enrollments[i].badge_instance = None
    /\ enrollments' = [enrollments EXCEPT ![i].badge_instance = [revoked |-> FALSE]]
    /\ call' = [op |-> "award"]
    /\ UNCHANGED <<social_accounts, exceptEnroll>>

\* The assertion of the enrollment is revoked.
RevokeAssertion(i) ==
    /\ enrollments[i].badge_instance = [revoked |-> FALSE]
    /\ enrollments' = [enrollments EXCEPT ![i].badge_instance = [revoked |-> TRUE]]
    /\ call' = [op |-> "revoke"]
    /\ UNCHANGED <<social_accounts, exceptEnroll>>

\* user.may_enroll(badge_class) is asked.
MayEnroll(self, badge_class) ==
    /\ call' = [op |-> "may_enroll", user |-> self, badge_class |-> badge_class,
                result |-> may_enroll(self, badge_class)]
    /\ UNCHANGED <<enrollVars, exceptEnroll>>

NextEnroll ==
    \/ \E user \in Users, provider \in Providers : ConnectSocialAccount(user, provider)
    \/ \E user \in Users, badge_class \in BadgeClasses : Enroll(user, badge_class)
    \/ \E i \in DOMAIN enrollments : AwardEnrollment(i)
    \/ \E i \in DOMAIN enrollments : RevokeAssertion(i)
    \/ \E user \in Users, badge_class \in BadgeClasses : MayEnroll(user, badge_class)

(***************************************************************************)
(* SPECIFICATIONS                                                          *)
(***************************************************************************)

Init ==
    /\ InitStaff
    /\ InitEmail
    /\ InitRank
    /\ InitTerms
    /\ InitInstitution
    /\ InitCallback
    /\ InitEnroll
    /\ call = [op |-> "init"]

\* Staff memberships come and go; permissions are resolved on demand.
SpecStaff == Init /\ [][NextStaff]_vars

\* Users assign their email_items and confirm addresses.
SpecEmail == Init /\ [][NextEmail]_vars

\* Addresses are stored, confirmed and deleted, and variants saved for them.
SpecVariant == Init /\ [][NextVariant]_vars

\* Groups and their GroupEntity rows are saved.
SpecRank == Init /\ [][NextRank]_vars

\* Terms versions are saved; a user agrees, reads the agreed version, has
\* agreements invalidated and is published.
SpecAgreement == Init /\ [][NextAgreement]_vars

\* Users are assigned institutions and read them.
SpecInstitution == Init /\ [][NextInstitution]_vars

\* The SurfConext callback serves one request after the other.
SpecCallback == Init /\ [][NextCallback]_vars

\* Students connect, enroll, are awarded and revoked, and ask may_enroll.
SpecEnroll == Init /\ [][NextEnroll]_vars

(***************************************************************************)
(* CLAIMS                                                                  *)
(***************************************************************************)

\* The node itself and its ancestors, following parent pointers to the root.
RECURSIVE Lineage(_)
Lineage(n) == {n} \cup (IF parent[n] = NoParent THEN {} ELSE Lineage(parent[n]))

\* C1: node.get_permissions(user) grants a key exactly when the user's staff
\* membership on the node or on one of its ancestors grants it, and is None
\* when the user has no membership on the node or on any ancestor.
C1_MaxWins ==
    \A n \in Nodes, u \in Users :
        LET members == {m \in Lineage(n) : staff[m][u] # None}
            perms   == get_permissions(n, u)
        IN  IF members = {}
            THEN perms = None
            ELSE /\ perms # None
                 /\ \A key \in Keys :
                        perms[key] = 1 <=> \E m \in members : staff[m][u][key] = 1

\* A user holds one flag on the institution and the other on the issuer, and
\* the badge class below them resolves to both.
C1_Witness ==
    /\ staff["institution"]["u1"] = [may_read |-> 0, may_update |-> 1]
    /\ staff["issuer1"]["u1"] = [may_read |-> 1, may_update |-> 0]
    /\ staff["badgeclass1"]["u1"] = None
    /\ get_permissions("badgeclass1", "u1") = [may_read |-> 1, may_update |-> 1]

\* C2: after an assignment to email_items that does not raise, the user owns
\* exactly the addresses the list names and exactly one of them is primary,
\* also for a list that names an address twice.
C2_OwnsNamedOnePrimary ==
    (call.op = "email_items" /\ ~call.raised) =>
        LET named == {call.value[i].email : i \in DOMAIN call.value}
            owned == cached_emails(Db, call.user)
        IN  /\ owned = named
            /\ Cardinality({e \in owned : addresses[e].primary}) = 1

\* The address is stored, verified and owned by another user than self.
VerifiedOfOther(email, self) ==
    /\ addresses[email] # None
    /\ addresses[email].verified
    /\ addresses[email].user # self

\* C3: in every step an address that stays stored changes its owner only if
\* it was unverified before the step, and an assignment to email_items that
\* names a verified address of another user raises ValidationError and leaves
\* every address as it was.
C3_OwnerChangesOnlyUnverified ==
    [][/\ \A e \in Emails :
            (/\ addresses[e] # None
             /\ addresses'[e] # None
             /\ addresses'[e].user # addresses[e].user) => ~addresses[e].verified
       /\ (/\ call'.op = "email_items"
           /\ \E i \in DOMAIN call'.value :
                  VerifiedOfOther(call'.value[i].email, call'.user))
          => (call'.raised /\ addresses' = addresses)]_vars

\* An assignment with one primary entry has just been refused because it
\* names a verified address of another user.
C3_Witness ==
    /\ call.op = "email_items"
    /\ call.raised
    /\ primary_count(call.value) = 1
    /\ \E i \in DOMAIN call.value : VerifiedOfOther(call.value[i].email, call.user)

\* C4: no two GroupEntity rows have the same non-null rank, and the last save
\* of a GroupEntity raised exactly when another row held the rank it asked
\* for, in which case the rank was not stored.
C4_RankUnique ==
    /\ \A g, h \in Groups :
           (/\ g # h
            /\ groupEntities[g] # None
            /\ groupEntities[h] # None
            /\ groupEntities[g].rank # {}) => groupEntities[g].rank # groupEntities[h].rank
    /\ call.op = "entity_save" =>
           IF call.raised
           THEN /\ call.rank # {}
                /\ \E h \in Groups \ {call.group} :
                       groupEntities[h] # None /\ groupEntities[h].rank = call.rank
                /\ \/ groupEntities[call.group] = None
                   \/ groupEntities[call.group].rank # call.rank
           ELSE groupEntities[call.group].rank = call.rank

\* A save asked for a rank another row holds and was refused, while two rows
\* with null rank exist side by side.
C4_Witness ==
    /\ call.op = "entity_save"
    /\ call.raised
    /\ \E g, h \in Groups :
           /\ g # h
           /\ groupEntities[g] # None
           /\ groupEntities[h] # None
           /\ groupEntities[g].rank = {}
           /\ groupEntities[h].rank = {}

\* C5: user.agreed_terms_version is the highest terms_version among the
\* user's valid TermsAgreement rows, and 0 when there is none.
C5_AgreedIsHighestValid ==
    LET valid == {v \in Versions : agreements[v] # None /\ agreements[v].valid}
    IN  agreed_terms_version(agreedCache, agreements) =
            IF valid = {} THEN 0 ELSE Greatest(valid)

\* C6: after an assignment to user.institution the user belongs to exactly
\* the institution assigned last, and reading user.institution returns it.
C6_OneInstitution ==
    call.op = "institution_set" =>
        /\ institution_set[call.user] = {call.value}
        /\ institution_get(institution_set[call.user]) =
               [raised |-> "", value |-> call.value]

\* C7: every stored variant belongs to a stored canonical address, equals it
\* when both are lower-cased and reads the canonical address's verified flag;
\* a save of a variant that does not match its canonical address raised and
\* stored nothing.
C7_VariantMatchesCanonical ==
    /\ \A v \in variants :
           /\ addresses[v.canonical_email] # None
           /\ lower(v.email) = lower(v.canonical_email)
           /\ variant_verified(Db, v) = addresses[v.canonical_email].verified
    /\ (/\ call.op = "variant_save"
        /\ call.canonical # NoCanonical
        /\ lower(call.email) # lower(call.canonical))
       => /\ call.raised
          /\ [email |-> call.email, canonical_email |-> call.canonical] \notin variants

\* The canonical address of an upper-case variant has just been confirmed,
\* and the variant reads as verified.
C7_Witness ==
    /\ call.op = "confirm"
    /\ \E v \in variants :
           /\ v.canonical_email = call.email
           /\ v.email = "B@x.nl"
           /\ variant_verified(Db, v)

\* C8: every invocation of the callback ends with an authentication error
\* rendered or with the social login completed.
C8_TwoOutcomes ==
    callback.pc = "done" => callback.outcome \in {AuthenticationError, Completed}

\* The token endpoint answered 200 with an access token.
TokenGranted(cb) ==
    /\ cb.token.received
    /\ cb.token.status_code = 200
    /\ cb.token.json
    /\ cb.token.access_token

\* The user-info endpoint answered 200 with an email.
EmailGiven(cb) ==
    /\ cb.userinfo.received
    /\ cb.userinfo.status_code = 200
    /\ cb.userinfo.json
    /\ cb.userinfo.email

\* C9: the user-info endpoint is requested only after the token endpoint
\* answered 200 with an access token, the social login is completed only
\* after the user-info endpoint answered 200 with an email, and a missing
\* code, a non-200 token response, a missing access token, a non-200 user-info
\* response or a missing email each end the callback with an authentication
\* error and without a later step.
C9_LinearExchange ==
    /\ callback.pc # "idle" =>
        /\ ("userinfo_request" \in {callback.steps[i] : i \in DOMAIN callback.steps})
               => TokenGranted(callback)
        /\ ("complete_social_login" \in {callback.steps[i] : i \in DOMAIN callback.steps})
               => EmailGiven(callback)
    /\ callback.pc = "done" =>
        /\ ~callback.request.has_code =>
               /\ callback.outcome = AuthenticationError
               /\ callback.steps = <<>>
        /\ (/\ callback.token.received
            /\ \/ callback.token.status_code # 200
               \/ callback.token.json /\ ~callback.token.access_token) =>
               /\ callback.outcome = AuthenticationError
               /\ callback.steps = <<"token_request">>
        /\ (/\ callback.userinfo.received
            /\ \/ callback.userinfo.status_code # 200
               \/ callback.userinfo.json /\ ~callback.userinfo.email) =>
               /\ callback.outcome = AuthenticationError
               /\ callback.steps = <<"token_request", "userinfo_request">>

\* C10: when both exchanges succeed and the user info holds 'email' but no
\* 'sub', the callback completes the social login.
C10_SubOptional ==
    (/\ callback.pc = "done"
     /\ TokenGranted(callback)
     /\ EmailGiven(callback)
     /\ ~callback.userinfo.sub
     /\ callback.request.state[3] \in BadgrApps) => callback.outcome = Completed

\* The nodes of a class for which node.get_permissions(user) grants every
\* one of the permissions.
Permitted(user, permissions, type) ==
    {n \in Nodes :
        /\ node_type[n] = type
        /\ get_permissions(n, user) # None
        /\ \A perm \in permissions : get_permissions(n, user)[perm] = 1}

\* C11: for every user and every non-empty set of permissions, get_issuers,
\* get_faculties and get_badgeclasses return exactly the nodes of their class
\* for which the hierarchical get_permissions grants all the permissions.
C11_GettersFollowHierarchy ==
    \A user \in Users, permissions \in (SUBSET Keys) \ {{}} :
        /\ get_issuers(user, permissions) = Permitted(user, permissions, "Issuer")
        /\ get_faculties(user, permissions) = Permitted(user, permissions, "Faculty")
        /\ get_badgeclasses(user, permissions) =
               Permitted(user, permissions, "BadgeClass")

\* The enrollments of the user for the badge class, by position.
EnrollmentsOf(user, badge_class) ==
    {i \in DOMAIN enrollments :
        enrollments[i].user = user /\ enrollments[i].badge_class = badge_class}

\* C12: for a user whose social account is of provider edu_id or
\* surfconext_ala, may_enroll(badge_class) is True exactly when every
\* enrollment of the user for the badge class is awarded and its assertion
\* revoked, and else False; with any other provider it is False.
C12_MayEnroll ==
    (call.op = "may_enroll" /\ social_accounts[call.user] # {}) =>
        IF social_accounts[call.user] \subseteq {"edu_id", "surfconext_ala"}
        THEN /\ call.result \in {"True", "False"}
             /\ call.result = "True" <=>
                    \A i \in EnrollmentsOf(call.user, call.badge_class) :
                        /\ enrollments[i].badge_instance # None
                        /\ enrollments[i].badge_instance.revoked
        ELSE call.result = "False"

\* may_enroll answered False for an eduID user because of the second of two
\* enrollments, the first being awarded and revoked.
C12_Witness ==
    /\ call.op = "may_enroll"
    /\ social_accounts[call.user] = {"edu_id"}
    /\ call.result = "False"
    /\ Len(enrollments) = 2
    /\ EnrollmentsOf(call.user, call.badge_class) = {1, 2}
    /\ enrollments[1].badge_instance = [revoked |-> TRUE]
    /\ enrollments[2].badge_instance # [revoked |-> TRUE]

\* What is stored about an address: whether it exists, its owner and its
\* primary flag.
Stored(row) ==
    IF row = None THEN None ELSE [user |-> row.user, primary |-> row.primary]

\* C13: an assignment to email_items that raises ValidationError leaves the
\* stored addresses of all users (existence, owner, primary flag) as they
\* were before the assignment.
C13_RaiseRollsBack ==
    [][(call'.op = "email_items" /\ call'.raised) =>
          \A email \in Emails : Stored(addresses'[email]) = Stored(addresses[email])]_vars

\* An assignment raised at its second entry, an address verified by another
\* user, after a first entry that would have created an address: the address
\* of the first entry does not exist.
C13_Witness ==
    /\ call.op = "email_items"
    /\ call.raised
    /\ Len(call.value) = 2
    /\ primary_count(call.value) = 1
    /\ call.value[1].email # call.value[2].email
    /\ addresses[call.value[1].email] = None
    /\ addresses[call.value[2].email] # None
    /\ addresses[call.value[2].email].user # call.user
    /\ addresses[call.value[2].email].verified

\* The user's agreed version: the highest version with a valid agreement
\* record, as the query behind the getter finds it; 0 when there is none.
AgreedVersion(agr) == agreed_terms_version({}, agr)

\* C14: an assignment to agreed_terms_version never lowers the agreed
\* version, creates an agreement only for an active TermsVersion, changes no
\* agreement that exists (so a version gets at most one record), and leaves
\* the agreements unchanged when the value is not an integer string, is not
\* greater than the current agreed version or is not an active version.
C14_AssignmentOnlyRaises ==
    [][call'.op = "agreed_terms_version_set" =>
          /\ AgreedVersion(agreements') >= AgreedVersion(agreements)
          /\ \A v \in Versions :
                 (agreements[v] = None /\ agreements'[v] # None) =>
                     active_version_exists(termsVersions, v)
          /\ \A v \in Versions :
                 agreements[v] # None => agreements'[v] = agreements[v]
          /\ (\/ int(call'.value) = {}
              \/ \E n \in int(call'.value) :
                     \/ n <= AgreedVersion(agreements)
                     \/ ~active_version_exists(termsVersions, n))
                 => agreements' = agreements]_vars

\* The addresses of the user that are marked primary.
PrimaryOf(rows, user) ==
    {e \in Emails : rows[e] # None /\ rows[e].user = user /\ rows[e].primary}

\* C15: after set_as_primary returns, the user of the address has exactly one
\* primary address: with conditional=True and a primary already there the
\* call returns False and no address changes; otherwise it returns True, the
\* address is primary and the former primary is not primary any more.
C15_SetAsPrimary ==
    [][(call'.op = "set_as_primary" /\ call'.result \in {"True", "False"}) =>
          LET user == addresses[call'.email].user
              old  == PrimaryOf(addresses, user)
          IN  /\ Cardinality(PrimaryOf(addresses', user)) = 1
              /\ IF call'.conditional /\ old # {}
                 THEN /\ call'.result = "False"
                      /\ addresses' = addresses
                 ELSE /\ call'.result = "True"
                      /\ addresses'[call'.email].primary
                      /\ \A e \in old \ {call'.email} : ~addresses'[e].primary]_vars

\* set_as_primary returned True for an address while another address of the
\* same user was the primary.
C15_Witness ==
    /\ call.op = "set_as_primary"
    /\ call.result = "True"
    /\ call.old_primary # {}
    /\ call.email \notin call.old_primary
    /\ \A e \in call.old_primary : addresses[e] # None

\* C16: a successful assignment to email_items by one user keeps the
\* primary-email invariant of every other user: who had exactly one primary
\* address before and still owns an address afterwards has exactly one
\* primary address afterwards, also after a handover.
C16_OthersKeepPrimary ==
    [][(call'.op = "email_items" /\ ~call'.raised) =>
          \A user \in Users \ {call'.user} :
              (/\ Cardinality(PrimaryOf(addresses, user)) = 1
               /\ \E e \in Emails : addresses'[e] # None /\ addresses'[e].user = user)
                  => Cardinality(PrimaryOf(addresses', user)) = 1]_vars

\* C17: after every creation, activation and deactivation of a TermsVersion,
\* each published, TermsVersion.cached.latest_version() is the highest
\* version among the active TermsVersion records, and 0 when none is active.
C17_LatestIsHighestActive ==
    LET active == {v \in Versions :
                      termsVersions[v] # None /\ termsVersions[v].is_active}
    IN  latest_version(termsVersions, latestCache) =
            IF active = {} THEN 0 ELSE Greatest(active)

====
